---- MODULE Spec2Model ----
(***************************************************************************)
(* "Le compte est bon": the expression reducer solve_using_all and the     *)
(* minimal-cardinality search solve_using_any / solve of the notebook,     *)
(* modelled as operators computed the way the Python code computes them,   *)
(* and a state machine whose actions are the calls of these functions.     *)
(* Then the Miller-Rabin test of the primality notebook, and the chain of  *)
(* blocks of the Blockchain notebook.                                      *)
(***************************************************************************)
EXTENDS Integers, Sequences, FiniteSets, TLC

(* Bounds of the model. *)
MaxTarget == 7
MaxCard == 3
MaxLen == 3
SessTarget == 2
SessCard == 2
SessLen == 2
MaxNumber == 40
MaxRounds == 2
MaxBlocks == 3

VARIABLES
    target,     \* the target of the current query
    all_cards,  \* the card list of the current query
    ops,        \* the operator list of the current query
    pc,         \* "drawn": inputs chosen, no call yet; "all": solve_using_all
                \* has returned; "any": solve_using_any / solve has returned
    reached,    \* the value last returned (first component)
    solution,   \* the solution last returned (second component)
    past,       \* history: one earlier completed call of solve, or NoCall
    prime_n,    \* primality: the number under test, n
    prime_k,    \* the number of random bases to try, k
    prime_i,    \* the number of bases tried so far, i
    prime_a,    \* the base tried last, a
    prime_pc,   \* "called": in is_probable_prime's loop; "returned": it has
                \* returned prime_result; "counted": count_witnesses has
                \* returned witness_count; "idle" outside this notebook
    prime_result,   \* what is_probable_prime returned
    witness_count,  \* what count_witnesses returned
    blocks,         \* blockchain: chain.blocks, the list of blocks
    genesis_block,  \* the block the chain was created from
    chain_pc,       \* "created", then the outcome of the last call:
                    \* "added", "rejected" (add_block), "valid", "invalid"
                    \* (validate_basic_chain), or "changed" after a change of
                    \* a block's data; "idle" outside this notebook
    refused,        \* history: some call of add_block was rejected
    offered,        \* the block passed to the last call of add_block
    untampered      \* history: the blocks as they were before a block's data
                    \* was changed; <<>> while none has been

gameVars == <<target, all_cards, ops, pc, reached, solution, past>>
primeVars == <<prime_n, prime_k, prime_i, prime_a, prime_pc, prime_result, witness_count>>
chainVars == <<blocks, genesis_block, chain_pc, refused, offered, untampered>>
vars == <<gameVars, primeVars, chainVars>>

\* Each notebook runs alone: the variables of the others keep these values.
GameIdle ==
    /\ target = 0
    /\ all_cards = <<>>
    /\ ops = <<>>
    /\ pc = "idle"
    /\ reached = 0
    /\ solution = <<>>
    /\ past = [made |-> FALSE]
PrimeIdle ==
    /\ prime_n = 0
    /\ prime_k = 0
    /\ prime_i = 0
    /\ prime_a = 0
    /\ prime_pc = "idle"
    /\ prime_result = FALSE
    /\ witness_count = 0
ChainIdle ==
    /\ blocks = <<>>
    /\ genesis_block = <<>>
    /\ chain_pc = "idle"
    /\ refused = FALSE
    /\ offered = <<>>
    /\ untampered = <<>>

(***************************************************************************)
(* Values                                                                  *)
(***************************************************************************)

\* Variant: the default operators without the multiplication.
OpsWithoutTimes == <<"+", "-", "/">>

\* The default operator list, ops = ['+', '-', '*', '/'].
DefaultOps == <<"+", "-", "*", "/">>

\* The operator lists the notebook calls solve with (score(ops = ...)).
ScoreOps ==
    { <<"+", "-", "/">>, <<"-", "*", "/">>, <<"+", "*", "/">>, <<"+", "-", "*">> }

\* A list of operators with no operator that is always legal: the ops
\* parameter of solve_using_all takes any list.
DivisionOnly == <<"/">>

\* abs()
Abs(x) == IF x < 0 THEN -x ELSE x

\* Variant: the first two cards deleted, whichever were selected.
DelFirstTwo(cds, i, j) == SubSeq(cds, 3, Len(cds))

\* The list cards after "del new_cards[j], new_cards[i]" (positions i < j,
\* 1-based here), applied to the copy new_cards = list(cards).
DelTwo(cds, i, j) ==
    SubSeq(cds, 1, i - 1) \o SubSeq(cds, i + 1, j - 1) \o SubSeq(cds, j + 1, Len(cds))

\* Variant: the operands left in card order.
NotSwapped(x, y) == <<x, y>>

\* "if a < b: a, b = b, a": the pair after the swap.
Swapped(x, y) == IF x < y THEN <<y, x>> ELSE <<x, y>>

\* Variant: a division gated on b > 0 alone, inexact quotients included.
AllowedInexact(k, a, b) == IF k = "/" THEN b > 0 ELSE TRUE

\* The '/' gate: "if b > 0 and a % b == 0"; every other operator passes.
Allowed(k, a, b) == IF k = "/" THEN b > 0 /\ a % b = 0 ELSE TRUE

\* Variant: the subtraction taken as b - a.
ResultOfMinusReversed(k, a, b) ==
    IF k = "+" THEN a + b
    ELSE IF k = "-" THEN b - a
    ELSE IF k = "*" THEN a * b
    ELSE a \div b

\* result, per operator.
ResultOf(k, a, b) ==
    IF k = "+" THEN a + b
    ELSE IF k = "-" THEN a - b
    ELSE IF k = "*" THEN a * b
    ELSE a \div b

\* Variant: an equally close result replaces the best one of solve_using_all.
CloserOrEqual(r, best, tgt) == Abs(r - tgt) <= Abs(best - tgt)

\* "abs(reached - target) < abs(best_reached - target)" in solve_using_all.
Closer(r, best, tgt) == Abs(r - tgt) < Abs(best - tgt)

\* A solution is a Python list whose entries are operations, the lists
\* [a, k, b, '=', result], closed by the reached value, an int.  An operation is
\* the 5-tuple <<a, k, b, "=", result>> and the int v is the 1-tuple <<v>>, so
\* that "type(operation) is int" of print_solution is Len(operation) = 1.
Value(v) == <<v>>
Operation(a, k, b, result) == <<a, k, b, "=", result>>

\* Variant: the sub-call's solution left out (no "extend").
StepAlone(a, k, b, result, sub) == <<Operation(a, k, b, result)>>

\* Variant: the operation put after the sub-call's solution.
StepLast(a, k, b, result, sub) == sub \o <<Operation(a, k, b, result)>>

\* best_solution = [[a, k, b, '=', result]]; best_solution.extend(solution)
WithStep(a, k, b, result, sub) == <<Operation(a, k, b, result)>> \o sub

(***************************************************************************)
(* solve_using_all                                                         *)
(*                                                                         *)
(* The accumulator of a loop is <<best_reached, best_solution, returned>>: *)
(* returned is TRUE once the "return" inside the loop has been taken.  A   *)
(* loop is evaluated over the range lo..hi of its iterations, numbered in  *)
(* the order the code visits them, by halves: the left half first, then    *)
(* the right half from the accumulator the left half leaves.  The order    *)
(* of the iterations is the code's; only the evaluation depth differs.     *)
(***************************************************************************)

\* The number of pairs i < j among count positions.
NumPairs(count) == (count * (count - 1)) \div 2

\* The rank (from 1) of the pair (i, j), i < j, in "for i in range(count):
\* for j in range(i + 1, count)"; positions are 1-based here.
PairRank(count, i, j) == (i - 1) * count - ((i - 1) * i) \div 2 + (j - i)

\* The pair visited p-th by the two outer loops, counted from row i on: row
\* i holds the count - i pairs (i, i + 1) .. (i, count).
RECURSIVE PairFrom(_, _, _)
PairFrom(count, p, i) ==
    IF p <= count - i THEN <<i, i + p>>
    ELSE PairFrom(count, p - (count - i), i + 1)

\* The pair visited p-th by the two outer loops: the one of rank p.
PairAt(count, p) == PairFrom(count, p, 1)

RECURSIVE SolveUsingAll(_, _, _)
RECURSIVE CombineAll(_, _, _, _, _, _, _)
RECURSIVE VisitAll(_, _, _, _, _, _, _)
RECURSIVE LoopAll(_, _, _, _, _, _)

\* Variant: no "return" on an exact result, the loops run to their end.
UpdateAllNoReturn(tgt, a, k, b, result, sub, best) ==
    IF Closer(sub[1], best[1], tgt)
    THEN <<sub[1], WithStep(a, k, b, result, sub[2]), FALSE>>
    ELSE <<best[1], best[2], FALSE>>

\* "if abs(reached - target) < abs(best_reached - target): ..." and "if
\* reached == target: return ...": the accumulator after the sub-call has
\* returned sub = <<reached, solution>> for the operation a k b = result.
UpdateAll(tgt, a, k, b, result, sub, best) ==
    IF Closer(sub[1], best[1], tgt)
    THEN <<sub[1], WithStep(a, k, b, result, sub[2]), sub[1] = tgt>>
    ELSE <<best[1], best[2], sub[1] = tgt>>

\* The body of the innermost loop for the operator k and the operands a, b
\* (already swapped), new_cards being the cards without the two selected.
CombineAll(tgt, new_cards, opl, k, a, b, best) ==
    IF ~Allowed(k, a, b) THEN best
    ELSE UpdateAll(tgt, a, k, b, ResultOf(k, a, b),
                   SolveUsingAll(tgt, Append(new_cards, ResultOf(k, a, b)), opl),
                   best)

\* The body of the innermost loop for cards i, j and operator ops[k].
VisitAll(tgt, cds, opl, i, j, k, best) ==
    CombineAll(tgt, DelTwo(cds, i, j), opl, opl[k],
               Swapped(cds[i], cds[j])[1], Swapped(cds[i], cds[j])[2], best)

\* Iterations lo..hi of the three nested loops; iteration p is pair
\* ((p - 1) \div len(ops)) + 1 with operator ((p - 1) % len(ops)) + 1.
LoopAll(tgt, cds, opl, lo, hi, best) ==
    IF best[3] \/ lo > hi THEN best
    ELSE IF lo = hi THEN
        LET pr == PairAt(Len(cds), ((lo - 1) \div Len(opl)) + 1)
        IN  VisitAll(tgt, cds, opl, pr[1], pr[2], ((lo - 1) % Len(opl)) + 1, best)
    ELSE
        LET mid == (lo + hi) \div 2
        IN  LoopAll(tgt, cds, opl, mid + 1, hi, LoopAll(tgt, cds, opl, lo, mid, best))

\* "return best_reached, best_solution", from the accumulator of a loop.
Returned(best) == <<best[1], best[2]>>

\* Variant: solve_using_all without its one-card case.
SolveUsingAllNoBaseCase(tgt, cds, opl) ==
    Returned(LoopAll(tgt, cds, opl, 1, NumPairs(Len(cds)) * Len(opl),
                     <<0, <<>>, FALSE>>))

\* The arguments of a call of solve_using_all: <<target, cards, ops>>.
SolveInputs == Int \X Seq(Int) \X Seq({"+", "-", "*", "/"})

\* The body of solve_using_all as a function of the call's arguments: a call
\* has a frame of its own, with nothing of its caller's frame in it.
solve_using_all ==
    [call \in SolveInputs |->
        IF Len(call[2]) = 1 THEN <<call[2][1], <<Value(call[2][1])>>>>
        ELSE Returned(LoopAll(call[1], call[2], call[3], 1,
                              NumPairs(Len(call[2])) * Len(call[3]),
                              <<0, <<>>, FALSE>>))]

\* solve_using_all(target, cards, ops): <<reached, solution>>.
SolveUsingAll(tgt, cds, opl) == solve_using_all[<<tgt, cds, opl>>]

(***************************************************************************)
(* solve_using_any                                                         *)
(***************************************************************************)

\* 2 ** n
RECURSIVE Pow2(_)
Pow2(n) == IF n = 0 THEN 1 ELSE 2 * Pow2(n - 1)

\* count_1_bits(n): the number of 1's in the binary representation of n.
RECURSIVE count_1_bits(_)
count_1_bits(n) ==
    IF n > 0 THEN (IF n % 2 # 0 THEN 1 ELSE 0) + count_1_bits(n \div 2)
    ELSE 0

\* make_subset(set, mask), from position index on (0-based, as in the code).
RECURSIVE MakeSubsetFrom(_, _, _)
MakeSubsetFrom(set, mask, index) ==
    IF mask > 0 THEN
        (IF mask % 2 # 0 THEN <<set[index + 1]>> ELSE <<>>)
            \o MakeSubsetFrom(set, mask \div 2, index + 1)
    ELSE <<>>

\* Variant: the whole set, whatever the mask.
make_subset_all(set, mask) == set

\* make_subset(set, mask): the elements of set at the positions of mask's 1's.
make_subset(set, mask) == MakeSubsetFrom(set, mask, 0)

\* Variant: every non-empty mask taken, whatever its size.
SelectedAnySize(mask, num_cards) == count_1_bits(mask) >= 1

\* "if count_1_bits(mask) == num_cards": the masks visited in pass num_cards.
Selected(mask, num_cards) == count_1_bits(mask) = num_cards

\* Variant: an equally close result replaces the best one.
CloserAnyOrEqual(r, best, tgt) == Abs(r - tgt) <= Abs(best - tgt)

\* "abs(reached - target) < abs(best_reached - target)" in solve_using_any.
CloserAny(r, best, tgt) == Abs(r - tgt) < Abs(best - tgt)

\* Variant: the accumulator left by the previous call.
StaleBest == <<reached, solution>>

\* "best_reached = 0; best_solution = []": the accumulator a call starts from.
FreshBest == <<0, <<>>>>

\* "if abs(reached - target) < abs(best_reached - target): ..." and "if
\* reached == target: return ..." of solve_using_any: the accumulator after
\* solve_using_all has returned sub = <<reached, solution>>.
UpdateAny(tgt, sub, best) ==
    IF CloserAny(sub[1], best[1], tgt)
    THEN <<sub[1], sub[2], sub[1] = tgt>>
    ELSE <<best[1], best[2], sub[1] = tgt>>

\* The body of the inner loop of solve_using_any for (num_cards, mask).
VisitAny(tgt, cds, opl, num_cards, mask, best) ==
    IF ~Selected(mask, num_cards) THEN best
    ELSE UpdateAny(tgt, SolveUsingAll(tgt, make_subset(cds, mask), opl), best)

\* Iterations lo..hi of "for num_cards in range(1, n + 1): for mask in
\* range(2 ** n)"; iteration p (from 0) is num_cards = p \div 2**n + 1 and
\* mask = p % 2**n.
RECURSIVE LoopAny(_, _, _, _, _, _)
LoopAny(tgt, cds, opl, lo, hi, best) ==
    IF best[3] \/ lo > hi THEN best
    ELSE IF lo = hi THEN
        VisitAny(tgt, cds, opl, (lo \div Pow2(Len(cds))) + 1, lo % Pow2(Len(cds)), best)
    ELSE
        LET mid == (lo + hi) \div 2
        IN  LoopAny(tgt, cds, opl, mid + 1, hi, LoopAny(tgt, cds, opl, lo, mid, best))

\* solve_using_any(target, all_cards, ops), and its alias solve, started from
\* the accumulator best = <<best_reached, best_solution>>: <<reached, solution>>.
SolveUsingAny(tgt, cds, opl, best) ==
    Returned(LoopAny(tgt, cds, opl, 0, Len(cds) * Pow2(Len(cds)) - 1,
                     <<best[1], best[2], FALSE>>))

(***************************************************************************)
(* The state machine                                                       *)
(***************************************************************************)

\* History: no call recorded.
NoCall == [made |-> FALSE]

\* The notebook's callers pass sorted card lists of positive integers
\* (draw returns sorted(random.sample(...)); so do the tests and the games).
RECURSIVE SortedSeqs(_, _, _)
SortedSeqs(n, lo, hi) ==
    IF n = 0 THEN {<<>>}
    ELSE UNION { { <<x>> \o s : s \in SortedSeqs(n - 1, x, hi) } : x \in lo..hi }

CardLists(maxlen, maxcard) == UNION { SortedSeqs(n, 1, maxcard) : n \in 1..maxlen }

OpLists == {DefaultOps} \cup ScoreOps \cup {DivisionOnly}

Init ==
    /\ target \in 1..MaxTarget
    /\ all_cards \in CardLists(MaxLen, MaxCard)
    /\ ops \in OpLists
    /\ pc = "drawn"
    /\ reached = 0
    /\ solution = <<>>
    /\ past = NoCall
    /\ PrimeIdle
    /\ ChainIdle

\* reached, solution = solve_using_all(target, cards, ops)
CallSolveUsingAll ==
    /\ pc = "drawn"
    /\ \E r \in {SolveUsingAll(target, all_cards, ops)} :
           /\ reached' = r[1]
           /\ solution' = r[2]
    /\ pc' = "all"
    /\ UNCHANGED <<target, all_cards, ops, past>>
    /\ UNCHANGED <<primeVars, chainVars>>

\* reached, solution = solve(target, cards, ops)
CallSolve ==
    /\ pc = "drawn"
    /\ \E r \in {SolveUsingAny(target, all_cards, ops, FreshBest)} :
           /\ reached' = r[1]
           /\ solution' = r[2]
    /\ pc' = "any"
    /\ UNCHANGED <<target, all_cards, ops, past>>
    /\ UNCHANGED <<primeVars, chainVars>>

Next == CallSolveUsingAll \/ CallSolve

Spec == Init /\ [][Next]_vars

(***************************************************************************)
(* A session of calls: the loop of score, which draws a game of n cards    *)
(* (n = SessLen here) and solves it with the same operator list, count     *)
(* times over.  past records one of the completed calls, any of them, and   *)
(* whether a call with other inputs has been made since.                   *)
(***************************************************************************)

\* The operator lists of the sessions: the default one and two of the others.
SessionOps == {DefaultOps, <<"+", "-", "*">>, <<"+", "-", "/">>}

\* Before the first game.
InitSession ==
    /\ target = 0
    /\ all_cards = <<>>
    /\ ops \in SessionOps
    /\ pc = "idle"
    /\ reached = 0
    /\ solution = <<>>
    /\ past = NoCall
    /\ PrimeIdle
    /\ ChainIdle

\* target, drawn = draw(n, lo, hi, cards)
\* reached, solution = solve(target, drawn, ops)
ScoreIteration ==
    \E t \in 1..SessTarget, drawn \in SortedSeqs(SessLen, 1, SessCard) :
        /\ target' = t
        /\ all_cards' = drawn
        /\ \E r \in {SolveUsingAny(t, drawn, ops, FreshBest)} :
               /\ reached' = r[1]
               /\ solution' = r[2]
        /\ pc' = "any"
        /\ past' = IF past.made /\ <<t, drawn>> # <<past.target, past.all_cards>>
                   THEN [past EXCEPT !.between = TRUE]
                   ELSE past
        /\ UNCHANGED ops
        /\ UNCHANGED <<primeVars, chainVars>>

\* History: keep the call that has just returned, once.
Remember ==
    /\ pc = "any"
    /\ ~past.made
    /\ past' = [made |-> TRUE, target |-> target, all_cards |-> all_cards,
                ops |-> ops, reached |-> reached, solution |-> solution,
                between |-> FALSE]
    /\ UNCHANGED <<target, all_cards, ops, pc, reached, solution>>
    /\ UNCHANGED <<primeVars, chainVars>>

NextSession == ScoreIteration \/ Remember

SpecSession == InitSession /\ [][NextSession]_vars

(***************************************************************************)
(* The notebook's tests and games: solve is called with the default        *)
(* operators on lists of ones (unit_tests_shortest) and on the two games   *)
(* the notebook solves, 383 and 653.                                       *)
(***************************************************************************)

\* The largest target and the largest number of cards of the tests on ones.
TestTarget == 10
TestCards == 6

\* [1] * m
Ones(m) == [n \in 1..m |-> 1]

\* target, cards = 383, [1, 3, 7, 7, 9, 25] and 653, [10, 10, 25, 50, 75, 100]
Game383 == <<383, <<1, 3, 7, 7, 9, 25>>>>
Game653 == <<653, <<10, 10, 25, 50, 75, 100>>>>

InitTests ==
    /\ \/ \E game \in {Game383, Game653} :
              /\ target = game[1]
              /\ all_cards = game[2]
       \/ \E m \in 1..TestCards, t \in 1..TestTarget :
              /\ target = t
              /\ all_cards = Ones(m)
    /\ ops = DefaultOps
    /\ pc = "drawn"
    /\ reached = 0
    /\ solution = <<>>
    /\ past = NoCall
    /\ PrimeIdle
    /\ ChainIdle

SpecTests == InitTests /\ [][CallSolve]_vars

(***************************************************************************)
(* The Miller-Rabin primality test                                         *)
(***************************************************************************)

\* (x * x) % m
Squared(x, m) == (x * x) % m

\* pow(b, e, m): b ** e modulo m, by squaring, so that no intermediate value
\* exceeds m * m.
RECURSIVE pow(_, _, _)
pow(b, e, m) ==
    IF e = 0 THEN 1 % m
    ELSE IF e % 2 = 0 THEN Squared(pow(b, e \div 2, m), m)
    ELSE (b * pow(b, e - 1, m)) % m

\* "while k % 2 == 0: k //= 2; res = pow(a, k, n); ..." of
\* is_miller_rabin_witness, from the value k on; AfterHalving is the rest of
\* an iteration once res is computed for the halved k.
RECURSIVE HalvingLoop(_, _, _)
AfterHalving(a, n, k, res) ==
    IF res = -1 + n THEN FALSE
    ELSE IF res # 1 THEN TRUE
    ELSE HalvingLoop(a, n, k)
HalvingLoop(a, n, k) ==
    IF k % 2 = 0 THEN AfterHalving(a, n, k \div 2, pow(a, k \div 2, n))
    ELSE FALSE

\* Variant: the test without its first check, pow(a, n - 1, n) != 1.
witness_without_fermat(a, n) == HalvingLoop(a, n, n - 1)

\* Variant: the test that takes every square root other than 1 for a proof,
\* n - 1 included.
witness_without_minus_one(a, n) ==
    \/ pow(a, n - 1, n) # 1
    \/ (n - 1) % 2 = 0 /\ pow(a, (n - 1) \div 2, n) # 1

\* is_miller_rabin_witness(a, n)
is_miller_rabin_witness(a, n) ==
    IF pow(a, n - 1, n) # 1 THEN TRUE
    ELSE HalvingLoop(a, n, n - 1)

\* count_witnesses(n, is_miller_rabin_witness): the loop from base a on, with
\* the count so far.
RECURSIVE CountFrom(_, _, _)
CountFrom(n, a, sofar) ==
    IF a >= n THEN sofar
    ELSE CountFrom(n, a + 1, IF is_miller_rabin_witness(a, n) THEN sofar + 1 ELSE sofar)
count_witnesses(n) == CountFrom(n, 1, 0)

\* A call is_probable_prime(n, is_miller_rabin_witness, k) or
\* count_witnesses(n, is_miller_rabin_witness) is about to run.
InitPrimes ==
    /\ prime_n \in 2..MaxNumber
    /\ prime_k \in 1..MaxRounds
    /\ prime_i = 0
    /\ prime_a = 0
    /\ prime_pc = "called"
    /\ prime_result = FALSE
    /\ witness_count = 0
    /\ GameIdle
    /\ ChainIdle

\* One iteration of "for i in range(k)": a = randint(1, n - 1), and
\* "return False" if a is a witness.
TryBase ==
    /\ prime_pc = "called"
    /\ prime_i < prime_k
    /\ \E a \in 1..(prime_n - 1) :
           /\ prime_a' = a
           /\ IF is_miller_rabin_witness(a, prime_n)
              THEN /\ prime_pc' = "returned"
                   /\ prime_result' = FALSE
                   /\ UNCHANGED prime_i
              ELSE /\ prime_i' = prime_i + 1
                   /\ UNCHANGED <<prime_pc, prime_result>>
    /\ UNCHANGED <<prime_n, prime_k, witness_count, gameVars, chainVars>>

\* "return True", the k bases tried.
ReturnTrue ==
    /\ prime_pc = "called"
    /\ prime_i = prime_k
    /\ prime_pc' = "returned"
    /\ prime_result' = TRUE
    /\ UNCHANGED <<prime_n, prime_k, prime_i, prime_a, witness_count, gameVars, chainVars>>

\* count_witnesses(n, is_miller_rabin_witness)
CountWitnesses ==
    /\ prime_pc = "called"
    /\ prime_i = 0
    /\ witness_count' = count_witnesses(prime_n)
    /\ prime_pc' = "counted"
    /\ UNCHANGED <<prime_n, prime_k, prime_i, prime_a, prime_result, gameVars, chainVars>>

NextPrimes == TryBase \/ ReturnTrue \/ CountWitnesses

SpecPrimes == InitPrimes /\ [][NextPrimes]_vars

(***************************************************************************)
(* The chain of blocks                                                     *)
(*                                                                         *)
(* A string is the sequence of its characters, and a character is a number *)
(* in 0 .. 3.  SHA-256 is not computed: its place is taken by a function   *)
(* of the characters of the record and of their order, whose digest has    *)
(* two characters; unlike SHA-256's, its collisions are within reach.      *)
(***************************************************************************)

\* hashlib.sha256(record.encode()).hexdigest(): the digest of the characters
\* of record from position i on, h being the digest state so far.
RECURSIVE DigestFrom(_, _, _)
DigestFrom(record, i, h) ==
    IF i > Len(record) THEN <<h \div 4, h % 4>>
    ELSE DigestFrom(record, i + 1, (5 * h + record[i] + 1) % 16)
sha256_hexdigest(record) == DigestFrom(record, 1, 7)

\* BasicBlock(data, previous_block_hash)
BasicBlock(data, previous_block_hash) ==
    [data |-> data, previous_block_hash |-> previous_block_hash]

\* BasicBlock.get_hash
get_hash(block) == sha256_hexdigest(block.data \o block.previous_block_hash)

\* BasicBlock.__eq__, and != which Python 3 takes from it.
SameBlock(block, other) == get_hash(block) = get_hash(other)

\* genesis_previous_block_hash = 'n/a'
genesis_previous_block_hash == <<3, 0, 3>>

\* The data of the blocks: a few short strings.
Datas == { <<1>>, <<2>>, <<1, 2>> }

\* The previous_block_hash of the blocks offered to add_block: any digest,
\* or 'n/a'.
Digests == (0..3) \X (0..3)
OfferedHashes == Digests \cup {genesis_previous_block_hash}

\* Variant: add_block without its check.
add_block_unchecked(blks, block) == Append(blks, block)

\* BasicChain.add_block: self.blocks after the call.
add_block(blks, block) ==
    IF block.previous_block_hash # get_hash(blks[Len(blks)]) THEN blks
    ELSE Append(blks, block)

\* "for i in range(1, len(chain.blocks))" of validate_basic_chain, from i on
\* (positions from 1 here): False at the first incorrect chaining.
RECURSIVE ChainingFrom(_, _)
ChainingFrom(blks, i) ==
    IF i > Len(blks) THEN TRUE
    ELSE IF get_hash(blks[i - 1]) # blks[i].previous_block_hash THEN FALSE
    ELSE ChainingFrom(blks, i + 1)

\* validate_basic_chain(chain, genesis_block)
validate_basic_chain(blks, genesis) ==
    IF Len(blks) = 0 THEN FALSE
    ELSE IF ~SameBlock(blks[1], genesis) THEN FALSE
    ELSE ChainingFrom(blks, 2)

\* basic_chain = BasicChain(basic_genesis_block)
InitChain ==
    /\ \E data \in Datas :
           genesis_block = BasicBlock(data, genesis_previous_block_hash)
    /\ blocks = <<genesis_block>>
    /\ chain_pc = "created"
    /\ refused = FALSE
    /\ offered = <<>>
    /\ untampered = <<>>
    /\ GameIdle
    /\ PrimeIdle

\* basic_chain.add_block(BasicBlock(data, previous_block_hash)); the chain
\* grows up to MaxBlocks blocks.
AddBlock ==
    /\ chain_pc # "idle"
    /\ untampered = <<>>
    /\ \E data \in Datas, previous_block_hash \in OfferedHashes :
           /\ \/ Len(blocks) < MaxBlocks
              \/ previous_block_hash # get_hash(blocks[Len(blocks)])
           /\ blocks' = add_block(blocks, BasicBlock(data, previous_block_hash))
           /\ chain_pc' = IF previous_block_hash # get_hash(blocks[Len(blocks)])
                          THEN "rejected" ELSE "added"
           /\ refused' = (refused \/ previous_block_hash # get_hash(blocks[Len(blocks)]))
           /\ offered' = BasicBlock(data, previous_block_hash)
    /\ UNCHANGED <<genesis_block, untampered, gameVars, primeVars>>

\* validate_basic_chain(basic_chain, basic_genesis_block)
Validate ==
    /\ chain_pc # "idle"
    /\ chain_pc' = IF validate_basic_chain(blocks, genesis_block) THEN "valid" ELSE "invalid"
    /\ UNCHANGED <<blocks, genesis_block, refused, offered, untampered, gameVars, primeVars>>

NextChain == AddBlock \/ Validate

SpecChain == InitChain /\ [][NextChain]_vars

\* Variant: the genesis block kept as a separate object, which a change of
\* the chain's first block does not reach.
SeparateGenesis(genesis, blks) == genesis

\* "self.blocks = [genesis_block]": the chain's first block and the caller's
\* genesis block are one object, so the genesis block is what the chain's
\* first block is.
SharedGenesis(genesis, blks) == blks[1]

\* basic_chain.blocks[i].data = data, once, for a block at any position and
\* a data other than the block's.
Tamper ==
    /\ chain_pc # "idle"
    /\ untampered = <<>>
    /\ \E i \in 1..Len(blocks), data \in Datas :
           /\ data # blocks[i].data
           /\ blocks' = [blocks EXCEPT ![i].data = data]
    /\ genesis_block' = SharedGenesis(genesis_block, blocks')
    /\ untampered' = blocks
    /\ chain_pc' = "changed"
    /\ UNCHANGED <<refused, offered, gameVars, primeVars>>

NextTamper == AddBlock \/ Tamper \/ Validate

SpecTamper == InitChain /\ [][NextTamper]_vars

(***************************************************************************)
(* What the claims speak of, stated apart from the code's search.          *)
(***************************************************************************)

\* The distance of a value to the target of the current query.
Dist(v) == Abs(v - target)

\* The results of the legal combinations of two values x and y with the
\* operators of opl: the larger operand comes first, a division must be exact
\* and by a positive divisor.
Combine(x, y, opl) ==
    LET a == IF x < y THEN y ELSE x
        b == IF x < y THEN x ELSE y
        has(k) == \E n \in 1..Len(opl) : opl[n] = k
    IN  (IF has("+") THEN {a + b} ELSE {})
        \cup (IF has("-") THEN {a - b} ELSE {})
        \cup (IF has("*") THEN {a * b} ELSE {})
        \cup (IF has("/") /\ b > 0 /\ a % b = 0 THEN {a \div b} ELSE {})

\* The list cds without its positions i < j.
Without(cds, i, j) == [n \in 1..(Len(cds) - 2) |->
    IF n < i THEN cds[n] ELSE IF n + 1 < j THEN cds[n + 1] ELSE cds[n + 2]]

\* The values obtainable by combining ALL the values of cds, two at a time.
RECURSIVE Obtainable(_, _)
Obtainable(cds, opl) ==
    IF Len(cds) = 1 THEN {cds[1]}
    ELSE UNION { UNION { Obtainable(Append(Without(cds, pr[1], pr[2]), r), opl) :
                         r \in Combine(cds[pr[1]], cds[pr[2]], opl) } :
                 pr \in { q \in (1..Len(cds)) \X (1..Len(cds)) : q[1] < q[2] } }

\* The cards of cds at the positions of S, in their order.
Pick(cds, S) ==
    LET F[n \in 0..Len(cds)] ==
            IF n = 0 THEN <<>>
            ELSE IF n \in S THEN Append(F[n - 1], cds[n]) ELSE F[n - 1]
    IN  F[Len(cds)]

\* The non-empty sets of card positions.
Subsets(cds) == (SUBSET (1..Len(cds))) \ {{}}

\* The values obtainable from the subsets of exactly n cards, and from any.
ObtainableWith(cds, opl, n) ==
    UNION { Obtainable(Pick(cds, S), opl) : S \in { T \in Subsets(cds) : Cardinality(T) = n } }
ObtainableAny(cds, opl) == UNION { Obtainable(Pick(cds, S), opl) : S \in Subsets(cds) }

\* The operations of a solution (all its entries but the closing value).
IsOperation(e) == Len(e) = 5
Operations(sol) == { n \in 1..Len(sol) : IsOperation(sol[n]) }

\* The multiset ms (a list) holds v; ms without one v.
Holds(ms, v) == \E n \in 1..Len(ms) : ms[n] = v
TakeOne(ms, v) ==
    LET n == CHOOSE m \in 1..Len(ms) : ms[m] = v
    IN  SubSeq(ms, 1, n - 1) \o SubSeq(ms, n + 1, Len(ms))

\* Replaying the entries n.. of sol from the multiset ms: each operation
\* takes its two operands out of the multiset and puts its result in.  The
\* multiset left, or <<>> when an operand is missing or an entry is out of place.
RECURSIVE Replay(_, _, _)
Replay(ms, sol, n) ==
    IF n >= Len(sol) THEN ms
    ELSE IF ~IsOperation(sol[n]) THEN <<>>
    ELSE IF ~Holds(ms, sol[n][1]) THEN <<>>
    ELSE IF ~Holds(TakeOne(ms, sol[n][1]), sol[n][3]) THEN <<>>
    ELSE Replay(Append(TakeOne(TakeOne(ms, sol[n][1]), sol[n][3]), sol[n][5]), sol, n + 1)

\* sol is the trace of value v from the cards cds: it closes with v, and its
\* replay from cds leaves v alone.
TraceOf(sol, cds, v) ==
    /\ Len(sol) >= 1
    /\ sol[Len(sol)] = Value(v)
    /\ Replay(cds, sol, 1) = <<v>>

(***************************************************************************)
(* Claims                                                                  *)
(***************************************************************************)

C2_AsStated ==
    (pc = "any" /\ target \notin ObtainableAny(all_cards, ops)) =>
        /\ reached \in ObtainableAny(all_cards, ops)
        /\ \A v \in ObtainableAny(all_cards, ops) : ~(Dist(v) < Dist(reached))
        /\ \E S \in Subsets(all_cards) : TraceOf(solution, Pick(all_cards, S), reached)

\* C2, amended: with no exact match, no value obtainable from a subset of the
\* cards is strictly closer to the target than the value solve returns; that
\* value comes with its trace from some subset of the cards, unless no
\* obtainable value is strictly closer to the target than 0, in which case
\* solve returns 0 with the empty solution.
C2_ClosestOrSentinel ==
    (pc = "any" /\ target \notin ObtainableAny(all_cards, ops)) =>
        LET ob == ObtainableAny(all_cards, ops)
        IN  /\ \A v \in ob : Dist(reached) <= Dist(v)
            /\ IF \E v \in ob : Dist(v) < Dist(0)
               THEN \E S \in Subsets(all_cards) :
                        TraceOf(solution, Pick(all_cards, S), reached)
               ELSE reached = 0 /\ solution = <<>>

\* C2's case: no exact match, and the closest value needs a combination.
C2_Witness ==
    /\ pc = "any"
    /\ target \notin ObtainableAny(all_cards, ops)
    /\ reached # 0
    /\ Len(solution) >= 2

\* C3: if some subset of k cards reaches the target exactly, solve returns
\* reached = target with a solution of at most k entries.
C3_Minimality ==
    pc = "any" =>
        \A k \in 1..Len(all_cards) :
            target \in ObtainableWith(all_cards, ops, k) =>
                reached = target /\ Len(solution) <= k

\* C3's case: the target is reachable with two cards and with all three, and
\* the two-card solution is the one returned.
C3_Witness ==
    /\ pc = "any"
    /\ Len(all_cards) = 3
    /\ target \notin ObtainableWith(all_cards, ops, 1)
    /\ target \in ObtainableWith(all_cards, ops, 2)
    /\ target \in ObtainableWith(all_cards, ops, 3)
    /\ reached = target
    /\ Len(solution) = 2

\* The least distance to the target of the values obtainable from subsets.
MinDist(cds, opl) ==
    CHOOSE d \in { Dist(v) : v \in ObtainableAny(cds, opl) } :
        \A v \in ObtainableAny(cds, opl) : d <= Dist(v)

\* The least size of a subset that obtains a value at the least distance.
MinSize(cds, opl) ==
    CHOOSE k \in 1..Len(cds) :
        /\ \E v \in ObtainableWith(cds, opl, k) : Dist(v) = MinDist(cds, opl)
        /\ \A n \in 1..(k - 1) :
               \A v \in ObtainableWith(cds, opl, n) : Dist(v) # MinDist(cds, opl)

\* C4 as stated: with no exact match, the solution solve returns comes from a
\* subset of minimum size among those attaining the least distance.
C4_AsStated ==
    (pc = "any" /\ target \notin ObtainableAny(all_cards, ops)) =>
        Len(solution) = MinSize(all_cards, ops)

\* C4, amended: with no exact match, and some obtainable value strictly
\* closer to the target than 0, the solution solve returns comes from a subset
\* of minimum size among those attaining the least distance; when no
\* obtainable value is strictly closer than 0, the solution is empty.
C4_SmallestOnTies ==
    (pc = "any" /\ target \notin ObtainableAny(all_cards, ops)) =>
        IF MinDist(all_cards, ops) < Dist(0)
        THEN /\ Dist(reached) = MinDist(all_cards, ops)
             /\ Len(solution) = MinSize(all_cards, ops)
        ELSE Len(solution) = 0

\* C4's case: no exact match, and the least distance is attained with two
\* cards and with three: the two-card solution is returned.
C4_Witness ==
    /\ pc = "any"
    /\ Len(all_cards) = 3
    /\ target \notin ObtainableAny(all_cards, ops)
    /\ MinSize(all_cards, ops) = 2
    /\ \E v \in ObtainableWith(all_cards, ops, 3) : Dist(v) = MinDist(all_cards, ops)
    /\ Len(solution) = 2

\* C5 as stated: on a single card c, solve returns reached = c with a trace
\* that has no operation.
C5_AsStated ==
    (pc = "any" /\ Len(all_cards) = 1) =>
        reached = all_cards[1] /\ Operations(solution) = {}

\* C5, amended: on a single card c, solve returns reached = c with the
\* solution [c] when c is strictly closer to the target than 0 is, and
\* reached = 0 with the empty solution otherwise.
C5_SingleCard ==
    (pc = "any" /\ Len(all_cards) = 1) =>
        IF Dist(all_cards[1]) < Dist(0)
        THEN reached = all_cards[1] /\ solution = <<Value(all_cards[1])>>
        ELSE reached = 0 /\ solution = <<>>

\* C5's case: a single card that is not the target and is returned.
C5_Witness ==
    /\ pc = "any"
    /\ Len(all_cards) = 1
    /\ all_cards[1] # target
    /\ reached = all_cards[1]

\* The operation e = [a, k, b, '=', result] is legal: a >= b, a division is
\* exact and by a positive divisor, and result is k applied to (a, b).
LegalOperation(e) ==
    /\ e[1] >= e[3]
    /\ e[2] = "+" => e[5] = e[1] + e[3]
    /\ e[2] = "-" => e[5] = e[1] - e[3]
    /\ e[2] = "*" => e[5] = e[1] * e[3]
    /\ e[2] = "/" => (e[3] > 0 /\ e[1] % e[3] = 0 /\ e[5] * e[3] = e[1])
    /\ e[2] \in {"+", "-", "*", "/"}

\* C6: every operation of a solution returned by solve_using_all or by solve
\* is legal.
C6_LegalOperations ==
    pc \in {"all", "any"} =>
        \A n \in Operations(solution) : LegalOperation(solution[n])

\* C6's case: a returned solution with a subtraction and a division whose
\* operands differ.
C6_Witness ==
    /\ pc \in {"all", "any"}
    /\ \E n \in Operations(solution) :
           solution[n][2] = "-" /\ solution[n][1] > solution[n][3]
    /\ \E n \in Operations(solution) :
           solution[n][2] = "/" /\ solution[n][1] > solution[n][3]

\* Some operation of sol has the result 0.
HasZeroStep(sol) == \E n \in Operations(sol) : sol[n][5] = 0

\* C7: for a target >= 1, every operation of the solution solve returns has a
\* positive result.
C7_SearchPositive ==
    (pc = "any" /\ target >= 1) =>
        \A n \in Operations(solution) : solution[n][5] > 0

\* C7's case: solve returns a solution with operations on cards that
\* solve_using_all reduces through a zero.
C7_Witness ==
    /\ pc = "any"
    /\ target >= 1
    /\ Operations(solution) # {}
    /\ HasZeroStep(SolveUsingAll(target, all_cards, ops)[2])

\* C8: every operation of a solution solve_using_all returns has a positive
\* result.
C8_ReducerPositive ==
    pc = "all" => \A n \in Operations(solution) : solution[n][5] > 0

C10_Replay ==
    (pc = "all" /\ solution # <<>>) => TraceOf(solution, all_cards, reached)

\* C10's case: a solution of two operations and the closing value.
C10_Witness ==
    /\ pc = "all"
    /\ Len(solution) = 3
    /\ Operations(solution) = {1, 2}

\* C11: a non-empty solution returned by solve is as long as the subset of
\* cards it was found on is large: for a subset of n cards, n - 1 operations
\* that replay from the subset, then the closing value; one entry for one card.
C11_TraceLength ==
    (pc = "any" /\ solution # <<>>) =>
        \E S \in Subsets(all_cards) :
            /\ Len(solution) = Cardinality(S)
            /\ Operations(solution) = 1..(Cardinality(S) - 1)
            /\ solution[Len(solution)] = Value(reached)
            /\ TraceOf(solution, Pick(all_cards, S), reached)

\* C11's case: a solution found on two of three cards.
C11_Witness ==
    /\ pc = "any"
    /\ Len(all_cards) = 3
    /\ Len(solution) = 2
    /\ Operations(solution) = {1}

\* The combinations of solve_using_all on cds, numbered from 1 in the order
\* the loops visit them: the pair of combination p, its operator, its
\* operands after the swap, whether it passes the gate, its operation, and
\* what the recursive call returns for it.
Combinations(cds, opl) == 1..(NumPairs(Len(cds)) * Len(opl))
PairOf(cds, opl, p) == PairAt(Len(cds), ((p - 1) \div Len(opl)) + 1)
OperatorOf(opl, p) == opl[((p - 1) % Len(opl)) + 1]
OperandsOf(cds, opl, p) == Swapped(cds[PairOf(cds, opl, p)[1]], cds[PairOf(cds, opl, p)[2]])
LegalAt(cds, opl, p) ==
    Allowed(OperatorOf(opl, p), OperandsOf(cds, opl, p)[1], OperandsOf(cds, opl, p)[2])
ResultAt(cds, opl, p) ==
    ResultOf(OperatorOf(opl, p), OperandsOf(cds, opl, p)[1], OperandsOf(cds, opl, p)[2])
StepAt(cds, opl, p) ==
    Operation(OperandsOf(cds, opl, p)[1], OperatorOf(opl, p),
              OperandsOf(cds, opl, p)[2], ResultAt(cds, opl, p))
SubCallAt(tgt, cds, opl, p) ==
    SolveUsingAll(tgt,
                  Append(DelTwo(cds, PairOf(cds, opl, p)[1], PairOf(cds, opl, p)[2]),
                         ResultAt(cds, opl, p)),
                  opl)
ExactAt(tgt, cds, opl, p) == LegalAt(cds, opl, p) /\ SubCallAt(tgt, cds, opl, p)[1] = tgt

\* The accumulator a call starts its loops with.
NoBest == <<0, <<>>, FALSE>>

\* The accumulator of solve_using_all's loops once combinations 1..p are done.
AfterCombination(tgt, cds, opl, p) == LoopAll(tgt, cds, opl, 1, p, <<0, <<>>, FALSE>>)

\* The distance to the target of what the recursive call returns for
\* combination p.
DistAt(tgt, cds, opl, p) == Abs(SubCallAt(tgt, cds, opl, p)[1] - tgt)
LegalCombinations(cds, opl) == { p \in Combinations(cds, opl) : LegalAt(cds, opl, p) }

\* The accumulators of solve_using_all's loops, one after the other: entry
\* p + 1 is the accumulator once combinations 1..p are done, each computed
\* from the one before.
RECURSIVE Accumulators(_, _, _, _)
Accumulators(tgt, cds, opl, p) ==
    IF p = 0 THEN <<NoBest>>
    ELSE LET before == Accumulators(tgt, cds, opl, p - 1)
         IN  Append(before, LoopAll(tgt, cds, opl, p, p, before[p]))

\* The distances of the combinations 1..p, one after the other; -1 for a
\* combination that does not pass the gate.
RECURSIVE Distances(_, _, _, _)
Distances(tgt, cds, opl, p) ==
    IF p = 0 THEN <<>>
    ELSE Append(Distances(tgt, cds, opl, p - 1),
                IF LegalAt(cds, opl, p) THEN DistAt(tgt, cds, opl, p) ELSE -1)

\* C18: at the first combination whose recursive call reaches the target,
\* solve_using_all has returned: the result is the target with that
\* combination's operation followed by the sub-call's solution, and the
\* combinations after it leave the result as it is.
C18_EarlyExit ==
    (pc = "all" /\ Len(all_cards) > 1) =>
        \A last \in {NumPairs(Len(all_cards)) * Len(ops)} :
        \A dist \in {Distances(target, all_cards, ops, last)} :
        \A accs \in {Accumulators(target, all_cards, ops, last)} :
            \A p \in Combinations(all_cards, ops) :
                (dist[p] = 0 /\ \A q \in 1..(p - 1) : dist[q] # 0)
                => /\ ExactAt(target, all_cards, ops, p)
                   /\ reached = target
                   /\ solution = <<StepAt(all_cards, ops, p)>>
                                     \o SubCallAt(target, all_cards, ops, p)[2]
                   /\ accs[p + 1] = <<reached, solution, TRUE>>
                   /\ accs[last + 1] = <<reached, solution, TRUE>>
                   /\ AfterCombination(target, all_cards, ops, p) = accs[p + 1]
                   /\ \A q \in 1..(p - 1) : ~accs[q + 1][3]

\* C18's case: the target is reached first by a combination that is neither
\* the first nor the last of three cards' combinations.
C18_Witness ==
    /\ pc = "all"
    /\ Len(all_cards) = 3
    /\ reached = target
    /\ \E p \in Combinations(all_cards, ops) :
           /\ 1 < p
           /\ p < NumPairs(Len(all_cards)) * Len(ops)
           /\ ExactAt(target, all_cards, ops, p)
           /\ \A q \in 1..(p - 1) : ~ExactAt(target, all_cards, ops, q)
           /\ \E q \in (p + 1)..(NumPairs(Len(all_cards)) * Len(ops)) :
                  ExactAt(target, all_cards, ops, q)

\* Combination p is the first visited of those with the least distance.
FirstOfBest(tgt, cds, opl, p) ==
    /\ p \in LegalCombinations(cds, opl)
    /\ \A q \in LegalCombinations(cds, opl) :
           /\ DistAt(tgt, cds, opl, p) <= DistAt(tgt, cds, opl, q)
           /\ q < p => DistAt(tgt, cds, opl, p) < DistAt(tgt, cds, opl, q)

\* Combination p is the first visited of those with the least distance,
\* dist being the list of the distances.
FirstOfLeast(dist, p) ==
    /\ dist[p] >= 0
    /\ \A q \in 1..Len(dist) :
           dist[q] >= 0 => /\ dist[p] <= dist[q]
                           /\ q < p => dist[p] < dist[q]

Sentinel == reached = 0 /\ solution = <<>>

RECURSIVE OnesValues(_)
OnesValues(m) ==
    IF m = 1 THEN {1}
    ELSE UNION { UNION { Combine(x, y, DefaultOps) :
                         x \in OnesValues(a), y \in OnesValues(m - a) } :
                 a \in 1..(m - 1) }
OnesUpTo(m) == UNION { OnesValues(n) : n \in 1..m }
Largest(S) == CHOOSE v \in S : \A w \in S : w <= v

\* The "expect" of unit_tests_shortest for target 10 on 1 .. 6 ones.
OnesExpected == <<1, 2, 3, 4, 6, 9>>

\* C12: with the four operators, solve on m ones (m up to 6) and target 10
\* returns the largest value of the expressions over up to m ones, that is
\* 1, 2, 3, 4, 6, 9, with a solution of length m; on six ones and targets
\* 1, 2, 5 it returns the target with a solution of length 1, 2, 5.
C12_AllOnes ==
    (pc = "any" /\ all_cards = Ones(Len(all_cards)) /\ ops = DefaultOps) =>
        /\ target = TestTarget =>
               /\ reached = Largest(OnesUpTo(Len(all_cards)))
               /\ reached = OnesExpected[Len(all_cards)]
               /\ Len(solution) = Len(all_cards)
        /\ (Len(all_cards) = TestCards /\ target \in {1, 2, 5}) =>
               /\ reached = target
               /\ Len(solution) = target

\* C12's case: five ones and target 10, every subset searched through.
C12_Witness ==
    /\ pc = "any"
    /\ all_cards = Ones(5)
    /\ target = TestTarget
    /\ reached = 6
    /\ Len(solution) = 5

\* No subset of fewer than n of the cards has a legal complete reduction
\* to the target.
NoneBelow(n) ==
    \A S \in Subsets(all_cards) :
        Cardinality(S) < n => target \notin Obtainable(Pick(all_cards, S), ops)

\* C13: solve(383, [1, 3, 7, 7, 9, 25]) with the four operators returns 383
\* with a solution that replays from a subset of the cards, and no subset
\* of fewer cards reaches 383.
C13_Game383 ==
    (pc = "any" /\ <<target, all_cards>> = Game383 /\ ops = DefaultOps) =>
        /\ reached = 383
        /\ \E S \in Subsets(all_cards) :
               /\ Cardinality(S) = Len(solution)
               /\ TraceOf(solution, Pick(all_cards, S), reached)
        /\ NoneBelow(Len(solution))

\* C13's case: the game solved, with five of its six cards.
C13_Witness ==
    /\ pc = "any"
    /\ <<target, all_cards>> = Game383
    /\ reached = target
    /\ Len(solution) = 5

\* C14: solve(653, [10, 10, 25, 50, 75, 100]) with the four operators returns
\* 653 with a solution of five operations that replays from all six cards,
\* and no subset of five cards or fewer reaches 653.
C14_Game653 ==
    (pc = "any" /\ <<target, all_cards>> = Game653 /\ ops = DefaultOps) =>
        /\ reached = 653
        /\ Len(solution) = 6
        /\ Operations(solution) = 1..5
        /\ TraceOf(solution, all_cards, reached)
        /\ NoneBelow(6)

\* C14's case: the game solved with a division as its last operation.
C14_Witness ==
    /\ pc = "any"
    /\ <<target, all_cards>> = Game653
    /\ reached = target
    /\ Len(solution) = 6
    /\ solution[5] = Operation(48975, "/", 75, 653)

\* n is prime; n is composite.
IsPrimeNumber(n) == n > 1 /\ \A d \in 2..(n - 1) : n % d # 0
IsComposite(n) == n > 1 /\ \E d \in 2..(n - 1) : n % d = 0

\* C15: for a prime n no base a, 0 < a < n, is a Miller-Rabin witness, so
\* is_probable_prime never returns False on a prime: it returns True,
\* whatever bases are drawn.
C15_PrimesPass ==
    (prime_pc # "idle" /\ IsPrimeNumber(prime_n)) =>
        /\ \A a \in 1..(prime_n - 1) : ~is_miller_rabin_witness(a, prime_n)
        /\ prime_pc = "returned" => prime_result

\* C15's case: is_probable_prime has returned for the prime 13, its bases
\* tried, the last one a base whose power at the first halving is n - 1.
C15_Witness ==
    /\ prime_pc = "returned"
    /\ prime_n = 13
    /\ prime_a = 5
    /\ prime_i = MaxRounds
    /\ prime_result

\* C16: for a composite n, at least (n - 1) / 2 of the bases 1 .. n - 1 are
\* Miller-Rabin witnesses: twice the count is at least n - 1.
C16_HalfAreWitnesses ==
    (prime_pc = "counted" /\ IsComposite(prime_n)) =>
        /\ witness_count * 2 >= prime_n - 1
        /\ witness_count =
               Cardinality({ a \in 1..(prime_n - 1) : is_miller_rabin_witness(a, prime_n) })

\* C16's case: the witnesses of an odd composite counted, some base other
\* than 1 not being one.
C16_Witness ==
    /\ prime_pc = "counted"
    /\ IsComposite(prime_n)
    /\ prime_n % 2 = 1
    /\ witness_count < prime_n - 2

\* The chain starts with the genesis block and each block's
\* previous_block_hash is the hash of the block before it.
WellFormed ==
    /\ Len(blocks) >= 1
    /\ blocks[1] = genesis_block
    /\ \A i \in 1..(Len(blocks) - 1) :
           blocks[i + 1].previous_block_hash = get_hash(blocks[i])

\* C17: after any calls of add_block, accepted or rejected, on a chain
\* created from a genesis block, the chain is well formed and
\* validate_basic_chain returns True.
C17_ChainWellFormed ==
    chain_pc # "idle" =>
        /\ WellFormed
        /\ validate_basic_chain(blocks, genesis_block)
        /\ chain_pc # "invalid"

\* C17's case: a chain of three blocks validated after accepted calls and
\* a rejected one.
C17_Witness ==
    /\ chain_pc = "valid"
    /\ Len(blocks) = 3
    /\ refused

\* C21: on a single card c, solve_using_all returns reached = c and the
\* solution that holds the card alone, with no operation, however far c is
\* from the target.
C21_BaseCase ==
    (pc = "all" /\ Len(all_cards) = 1) =>
        /\ reached = all_cards[1]
        /\ solution = <<Value(all_cards[1])>>
        /\ Operations(solution) = {}

\* C21's case: a single card farther from the target than 0 is.
C21_Witness ==
    /\ pc = "all"
    /\ Len(all_cards) = 1
    /\ Dist(all_cards[1]) > Dist(0)
    /\ reached = all_cards[1]

\* The loop of solve_using_any with a record of its calls of solve_using_all:
\* the accumulator is <<best, handed>>, best being the accumulator of LoopAny
\* and handed the list of the masks whose subset was handed to
\* solve_using_all, in the order of the calls.
VisitHanded(tgt, cds, opl, num_cards, mask, acc) ==
    <<VisitAny(tgt, cds, opl, num_cards, mask, acc[1]),
      IF Selected(mask, num_cards) THEN Append(acc[2], mask) ELSE acc[2]>>

RECURSIVE LoopHanded(_, _, _, _, _, _)
LoopHanded(tgt, cds, opl, lo, hi, acc) ==
    IF acc[1][3] \/ lo > hi THEN acc
    ELSE IF lo = hi THEN
        VisitHanded(tgt, cds, opl, (lo \div Pow2(Len(cds))) + 1, lo % Pow2(Len(cds)), acc)
    ELSE
        LET mid == (lo + hi) \div 2
        IN  LoopHanded(tgt, cds, opl, mid + 1, hi, LoopHanded(tgt, cds, opl, lo, mid, acc))

\* What a call of solve_using_any leaves: <<<<reached, solution, returned>>,
\* handed>>.
Handed(tgt, cds, opl) ==
    LoopHanded(tgt, cds, opl, 0, Len(cds) * Pow2(Len(cds)) - 1,
               <<<<0, <<>>, FALSE>>, <<>>>>)

\* The card positions (from 1) whose bit is set in mask.
PositionsOf(mask, n) == { i \in 1..n : (mask \div Pow2(i - 1)) % 2 = 1 }

\* C22: solve hands to solve_using_all subsets selected by position, none
\* twice, the smaller before the larger, each with its cards in their
\* original order; with no exact match, every non-empty subset of positions
\* is handed.  make_subset(set, mask) is the list of the elements at the
\* positions of the bits of mask, count_1_bits(mask) of them.
C22_SubsetEnumeration ==
    pc = "any" =>
        \A n \in {Len(all_cards)} :
        \A h \in {Handed(target, all_cards, ops)} :
            /\ Returned(h[1]) = <<reached, solution>>
            /\ \A x \in 1..Len(h[2]) :
                   /\ h[2][x] \in 1..(Pow2(n) - 1)
                   /\ \A y \in 1..Len(h[2]) : h[2][x] = h[2][y] => x = y
                   /\ \A y \in 1..Len(h[2]) :
                          x < y => count_1_bits(h[2][x]) <= count_1_bits(h[2][y])
            /\ reached # target =>
                   { PositionsOf(h[2][x], n) : x \in 1..Len(h[2]) } = Subsets(all_cards)
            /\ \A mask \in 0..(Pow2(n) - 1) :
                   /\ make_subset(all_cards, mask) = Pick(all_cards, PositionsOf(mask, n))
                   /\ Len(make_subset(all_cards, mask)) = count_1_bits(mask)
                   /\ count_1_bits(mask) = Cardinality(PositionsOf(mask, n))

\* C22's case: three cards, two of them equal, and no exact match: seven
\* subsets are handed, the two equal cards once each.
C22_Witness ==
    /\ pc = "any"
    /\ Len(all_cards) = 3
    /\ all_cards[1] = all_cards[2]
    /\ reached # target
    /\ Len(Handed(target, all_cards, ops)[2]) = 7
    /\ make_subset(all_cards, 1) = make_subset(all_cards, 2)

\* The card list of the recursive call made for combination p of a call on
\* cds.
ChildAt(cds, opl, p) ==
    Append(DelTwo(cds, PairOf(cds, opl, p)[1], PairOf(cds, opl, p)[2]), ResultAt(cds, opl, p))

\* The card lists of the calls of solve_using_all that a call on cds makes
\* when no exact result cuts its loops short: cds itself, and the calls made
\* for the combinations that pass the gate, level by level of the
\* recursion.
RECURSIVE CallsFrom(_, _)
CallsFrom(level, opl) ==
    IF level = {} THEN {}
    ELSE level \cup
         CallsFrom(UNION { { ChildAt(cds, opl, p) : p \in LegalCombinations(cds, opl) } :
                           cds \in { c \in level : Len(c) > 1 } }, opl)
Calls(cds, opl) == CallsFrom({cds}, opl)

\* The divisions among the combinations of a call on cds, and those of them
\* whose operands a, b have b > 0 and a mod b = 0.
Divisions(cds, opl) == { p \in Combinations(cds, opl) : OperatorOf(opl, p) = "/" }
Divisible(cds, opl, p) ==
    /\ OperandsOf(cds, opl, p)[2] > 0
    /\ OperandsOf(cds, opl, p)[1] % OperandsOf(cds, opl, p)[2] = 0

\* C23: in every call of solve_using_all, a division whose divisor is not
\* positive or does not divide exactly is skipped: it leaves the best so far
\* as it is, and the combination after it is explored as if it had not been
\* there; a division that produces a candidate has a positive divisor and an
\* exact quotient.  So no division by zero is performed, in the calls whose
\* cards hold a 0 too.
C23_DivisionGate ==
    pc = "all" =>
        \A cds \in Calls(all_cards, ops) :
            \A p \in Divisions(cds, ops) :
                /\ ~Divisible(cds, ops, p) =>
                       /\ LoopAll(target, cds, ops, p, p, NoBest) = NoBest
                       /\ LoopAll(target, cds, ops, p, p, <<reached, solution, FALSE>>)
                              = <<reached, solution, FALSE>>
                       /\ p + 1 \in Combinations(cds, ops) =>
                              LoopAll(target, cds, ops, p, p + 1, NoBest)
                                  = LoopAll(target, cds, ops, p + 1, p + 1, NoBest)
                /\ LoopAll(target, cds, ops, p, p, NoBest) # NoBest =>
                       Divisible(cds, ops, p)

\* C23's case: with no exact result, a division that is not exact is skipped
\* and the combination after it gives a candidate, and a call on cards with
\* a 0, left by a subtraction, skips the division by it.
C23_Witness ==
    /\ pc = "all"
    /\ reached # target
    /\ solution # <<>>
    /\ \E p \in Divisions(all_cards, ops) :
           /\ ~Divisible(all_cards, ops, p)
           /\ p + 1 \in Combinations(all_cards, ops)
           /\ LoopAll(target, all_cards, ops, p, p + 1, NoBest) # NoBest
    /\ \E cds \in Calls(all_cards, ops) :
           /\ cds # all_cards
           /\ \E p \in Divisions(cds, ops) : OperandsOf(cds, ops, p)[2] = 0

\* The subtractions among the combinations of a call on cds.
Subtractions(cds, opl) == { p \in Combinations(cds, opl) : OperatorOf(opl, p) = "-" }

\* C24: for cards that are positive integers, every card of every call of
\* solve_using_all, the recursive ones included, is a non-negative integer,
\* and every subtraction takes the smaller operand from the larger.
C24_NonNegative ==
    pc = "all" =>
        \A cds \in Calls(all_cards, ops) :
            /\ \A n \in 1..Len(cds) : cds[n] \in Nat
            /\ \A p \in Subtractions(cds, ops) :
                   /\ OperandsOf(cds, ops, p)[1] >= OperandsOf(cds, ops, p)[2]
                   /\ ResultAt(cds, ops, p) >= 0
                   /\ ResultAt(cds, ops, p)
                          = Abs(cds[PairOf(cds, ops, p)[1]] - cds[PairOf(cds, ops, p)[2]])

\* C24's case: three cards, a subtraction whose operands are swapped, and a
\* recursive call whose cards hold a 0.
C24_Witness ==
    /\ pc = "all"
    /\ Len(all_cards) = 3
    /\ \E p \in Subtractions(all_cards, ops) :
           all_cards[PairOf(all_cards, ops, p)[1]] < all_cards[PairOf(all_cards, ops, p)[2]]
    /\ \E cds \in Calls(all_cards, ops) :
           /\ \E n \in 1..Len(cds) : cds[n] = 0
           /\ Subtractions(cds, ops) # {}

\* The depth of the recursion of a call on n cards whose calls are on the
\* card lists calls: each recursive call has one card fewer than its caller,
\* so the deepest call is the one with the fewest cards.
Depth(calls, n) == n - (CHOOSE m \in 1..n : /\ \E cds \in calls : Len(cds) = m
                                            /\ \A cds \in calls : Len(cds) >= m)

\* Every recursive call among calls receives the cards of its caller
\* without the two selected ones, in their order, followed by the result of
\* the operation: one card fewer, and one card at least.
ReductionStep(calls) ==
    \A cds \in calls :
        \A p \in LegalCombinations(cds, ops) :
            /\ ChildAt(cds, ops, p)
                   = Append(Without(cds, PairOf(cds, ops, p)[1], PairOf(cds, ops, p)[2]),
                            ResultAt(cds, ops, p))
            /\ Len(ChildAt(cds, ops, p)) = Len(cds) - 1
            /\ Len(ChildAt(cds, ops, p)) >= 1
            /\ ChildAt(cds, ops, p) \in calls

\* The calls of solve_using_all that solve_using_any makes are finitely many
\* and on non-empty lists: a mask below 2 ** n selected in the pass
\* num_cards gives a subset of num_cards cards, 1 <= num_cards <= n.
FiniteCalls ==
    \A num_cards \in 1..Len(all_cards) :
        \A mask \in 0..(Pow2(Len(all_cards)) - 1) :
            Selected(mask, num_cards) =>
                Len(make_subset(all_cards, mask)) = num_cards

\* C25 as stated: each recursive call of solve_using_all receives the cards
\* without the two selected ones and with the result appended, and the
\* recursion on n cards is exactly n - 1 calls deep.
C25_AsStated ==
    /\ pc = "any" => FiniteCalls
    /\ pc = "all" =>
           \A calls \in {Calls(all_cards, ops)} :
               /\ ReductionStep(calls)
               /\ Depth(calls, Len(all_cards)) = Len(all_cards) - 1

\* C25 amended: each recursive call of solve_using_all receives the cards
\* without the two selected ones and with the result appended, one card
\* fewer; the recursion on n cards is at most n - 1 calls deep, and exactly
\* n - 1 when the cards have a legal complete reduction, as they have
\* whenever ops holds '+', '-' or '*'; it is less deep when at some level
\* no combination passes the division gate.  solve_using_any calls
\* solve_using_all finitely often, on non-empty subsets.
C25_ReductionAndDepth ==
    /\ pc = "any" => FiniteCalls
    /\ pc = "all" =>
           \A calls \in {Calls(all_cards, ops)} :
               /\ ReductionStep(calls)
               /\ Depth(calls, Len(all_cards)) <= Len(all_cards) - 1
               /\ Depth(calls, Len(all_cards)) = Len(all_cards) - 1
                      <=> Obtainable(all_cards, ops) # {}
               /\ (\E n \in 1..Len(ops) : ops[n] \in {"+", "-", "*"}) =>
                      Depth(calls, Len(all_cards)) = Len(all_cards) - 1

\* C25's case: three cards and the division alone: the first level has a
\* legal division, the second has none, and the recursion is one call deep.
C25_Witness ==
    /\ pc = "all"
    /\ Len(all_cards) = 3
    /\ ops = DivisionOnly
    /\ Depth(Calls(all_cards, ops), Len(all_cards)) = 1
    /\ Sentinel

(***************************************************************************)
(* solve_using_all and solve_using_any on a heap of lists                  *)
(*                                                                         *)
(* Python's lists are objects: a name holds a reference, and "del" and     *)
(* "append" change the object for every name that refers to it.  The heap  *)
(* is the sequence of the list objects alive, a reference is a position in *)
(* it.  A call takes the heap and the reference of its card list, and it   *)
(* returns, with its results, the heap it leaves; raised tells that an     *)
(* exception (IndexError, AssertionError) ended it, and intact that it     *)
(* found, at each iteration and after each call it made, the lists that    *)
(* were alive before as they were.  A list that no name refers to any more *)
(* is taken off the heap.                                                  *)
(***************************************************************************)

\* Variant: "new_cards = cards": the same object under another name.
list_alias(h, ref) == <<h, ref>>

\* "new_cards = list(cards)": <<the heap with the new list, its reference>>.
list_copy(h, ref) == <<Append(h, h[ref]), Len(h) + 1>>

\* The heap once the name new_cards (reference nref) is dropped or rebound:
\* its list goes unless cards (reference ref) is the same object.
Dropped(h, ref, nref) == IF nref = ref THEN h ELSE SubSeq(h, 1, nref - 1)

\* The lists of the heap before are in the heap after, as they were.
Preserved(before, after) ==
    /\ Len(after) >= Len(before)
    /\ SubSeq(after, 1, Len(before)) = before

RECURSIVE SolveOnHeap(_, _, _, _)
RECURSIVE IterOnHeap(_, _, _, _, _, _, _, _)
RECURSIVE LoopOnHeap(_, _, _, _, _, _, _, _)

\* The body of the innermost loop for positions i < j (from 1) and operator
\* k, in a call whose list had the contents c0 at its start.
IterOnHeap(tgt, ref, opl, c0, i, j, k, acc) ==
    IF i > Len(acc.heap[ref]) \/ j > Len(acc.heap[ref])
    THEN [acc EXCEPT !.raised = TRUE, !.intact = FALSE]
    ELSE
        LET seen == acc.intact /\ acc.heap[ref] = c0
            a == Swapped(acc.heap[ref][i], acc.heap[ref][j])[1]
            b == Swapped(acc.heap[ref][i], acc.heap[ref][j])[2]
            cp == list_copy(acc.heap, ref)
            h2 == [cp[1] EXCEPT ![cp[2]] = DelTwo(@, i, j)]
        IN  IF ~Allowed(k, a, b)
            THEN [acc EXCEPT !.heap = Dropped(h2, ref, cp[2]),
                             !.intact = seen /\ Preserved(acc.heap, h2)]
            ELSE
                LET h3 == [h2 EXCEPT ![cp[2]] = Append(@, ResultOf(k, a, b))]
                    sub == SolveOnHeap(tgt, cp[2], opl, h3)
                IN  IF sub.raised
                    THEN [acc EXCEPT !.heap = sub.heap, !.raised = TRUE, !.intact = FALSE]
                    ELSE [best |-> UpdateAll(tgt, a, k, b, ResultOf(k, a, b),
                                             <<sub.reached, sub.solution>>, acc.best),
                          heap |-> Dropped(sub.heap, ref, cp[2]),
                          raised |-> FALSE,
                          intact |-> /\ seen
                                     /\ sub.intact
                                     /\ Preserved(h3, sub.heap)
                                     /\ Preserved(acc.heap, sub.heap)]

\* Iterations lo..hi of the three nested loops, over range(count).
LoopOnHeap(tgt, ref, opl, c0, count, lo, hi, acc) ==
    IF acc.best[3] \/ acc.raised \/ lo > hi THEN acc
    ELSE IF lo = hi THEN
        LET pr == PairAt(count, ((lo - 1) \div Len(opl)) + 1)
        IN  IterOnHeap(tgt, ref, opl, c0, pr[1], pr[2], opl[((lo - 1) % Len(opl)) + 1], acc)
    ELSE
        LET mid == (lo + hi) \div 2
        IN  LoopOnHeap(tgt, ref, opl, c0, count, mid + 1, hi,
                       LoopOnHeap(tgt, ref, opl, c0, count, lo, mid, acc))

\* solve_using_all(target, cards, ops), cards being the list at ref of h.
SolveOnHeap(tgt, ref, opl, h) ==
    IF Len(h[ref]) = 0
    THEN [reached |-> 0, solution |-> <<>>, heap |-> h, raised |-> TRUE, intact |-> FALSE]
    ELSE IF Len(h[ref]) = 1
    THEN [reached |-> h[ref][1], solution |-> <<Value(h[ref][1])>>, heap |-> h,
          raised |-> FALSE, intact |-> TRUE]
    ELSE
        LET acc == LoopOnHeap(tgt, ref, opl, h[ref], Len(h[ref]), 1,
                              NumPairs(Len(h[ref])) * Len(opl),
                              [best |-> NoBest, heap |-> h, raised |-> FALSE, intact |-> TRUE])
        IN  [reached |-> acc.best[1], solution |-> acc.best[2], heap |-> acc.heap,
             raised |-> acc.raised, intact |-> acc.intact]

\* The body of the inner loop of solve_using_any for (num_cards, mask):
\* "cards = make_subset(all_cards, mask)" builds a new list from all_cards.
IterAnyOnHeap(tgt, ref, opl, c0, num_cards, mask, acc) ==
    IF ~Selected(mask, num_cards) THEN acc
    ELSE
        LET h1 == Append(acc.heap, make_subset(acc.heap[ref], mask))
            sub == SolveOnHeap(tgt, Len(h1), opl, h1)
        IN  IF sub.raised
            THEN [acc EXCEPT !.heap = sub.heap, !.raised = TRUE, !.intact = FALSE]
            ELSE [best |-> UpdateAny(tgt, <<sub.reached, sub.solution>>, acc.best),
                  heap |-> Dropped(sub.heap, ref, Len(h1)),
                  raised |-> FALSE,
                  intact |-> /\ acc.intact
                             /\ acc.heap[ref] = c0
                             /\ sub.intact
                             /\ Preserved(h1, sub.heap)]

\* Iterations lo..hi of the two loops of solve_using_any, n = len(all_cards).
RECURSIVE LoopAnyOnHeap(_, _, _, _, _, _, _, _)
LoopAnyOnHeap(tgt, ref, opl, c0, n, lo, hi, acc) ==
    IF acc.best[3] \/ acc.raised \/ lo > hi THEN acc
    ELSE IF lo = hi THEN
        IterAnyOnHeap(tgt, ref, opl, c0, (lo \div Pow2(n)) + 1, lo % Pow2(n), acc)
    ELSE
        LET mid == (lo + hi) \div 2
        IN  LoopAnyOnHeap(tgt, ref, opl, c0, n, mid + 1, hi,
                          LoopAnyOnHeap(tgt, ref, opl, c0, n, lo, mid, acc))

\* solve_using_any(target, all_cards, ops), all_cards being the list at ref.
AnyOnHeap(tgt, ref, opl, h) ==
    LET acc == LoopAnyOnHeap(tgt, ref, opl, h[ref], Len(h[ref]), 0,
                             Len(h[ref]) * Pow2(Len(h[ref])) - 1,
                             [best |-> NoBest, heap |-> h, raised |-> FALSE, intact |-> TRUE])
    IN  [reached |-> acc.best[1], solution |-> acc.best[2], heap |-> acc.heap,
         raised |-> acc.raised, intact |-> acc.intact]

\* The call of the current query, made on a heap that holds the caller's
\* list alone.
OnHeap ==
    IF pc = "all" THEN SolveOnHeap(target, 1, ops, <<all_cards>>)
    ELSE AnyOnHeap(target, 1, ops, <<all_cards>>)

\* C26: a call of solve_using_all or of solve leaves the caller's list with
\* the elements it had, in their order; during the call every list alive
\* before an iteration or a recursive call, the lists of the enclosing
\* levels among them, is found as it was, each branch deleting from and
\* appending to a copy of its own; and no exception ends the call.
C26_InputsNotModified ==
    pc \in {"all", "any"} =>
        \A r \in {OnHeap} :
            /\ ~r.raised
            /\ r.intact
            /\ r.heap = <<all_cards>>
            /\ r.reached = reached
            /\ r.solution = solution

\* C26's case: three cards reduced through two levels of recursion, with no
\* exact result to cut the loops short.
C26_Witness ==
    /\ pc = "all"
    /\ Len(all_cards) = 3
    /\ Len(solution) = 3
    /\ reached # target
    /\ OnHeap.heap = <<all_cards>>

\* C27: for a target >= 1 and positive cards, the value solve returns is at
\* a distance of at most target from the target; solve returns 0 and the
\* empty solution exactly when no subset of the cards obtains a value
\* strictly closer to the target than 0, and otherwise a non-zero value
\* obtainable from a subset, at the least distance of all, with a non-empty
\* solution.
C27_SentinelInSearch ==
    (pc = "any" /\ target >= 1) =>
        /\ Dist(reached) <= target
        /\ Sentinel <=> \A v \in ObtainableAny(all_cards, ops) : Dist(v) >= target
        /\ ~Sentinel =>
               /\ reached # 0
               /\ solution # <<>>
               /\ reached \in ObtainableAny(all_cards, ops)
               /\ \A v \in ObtainableAny(all_cards, ops) : Dist(reached) <= Dist(v)

\* C27's case: two cards whose every obtainable value, a 0 among them, is
\* no closer to the target than 0: solve returns 0 and the empty solution.
C27_Witness ==
    /\ pc = "any"
    /\ Len(all_cards) = 2
    /\ 0 \in ObtainableAny(all_cards, ops)
    /\ \E v \in ObtainableAny(all_cards, ops) : Dist(v) = target /\ v # 0
    /\ Sentinel

\* C28: a call of add_block appends the block it is given if the block's
\* previous_block_hash is the hash of the last block, and only then;
\* otherwise it leaves the list of blocks as it was.  So under calls of
\* add_block the chain never gets shorter and the blocks it has keep their
\* positions.
C28_RejectedAppend ==
    [][ /\ chain_pc' \in {"added", "rejected"} =>
               /\ blocks' = IF offered'.previous_block_hash = get_hash(blocks[Len(blocks)])
                            THEN blocks \o <<offered'>>
                            ELSE blocks
               /\ chain_pc' = "rejected" <=> blocks' = blocks
        /\ Len(blocks') >= Len(blocks)
        /\ SubSeq(blocks', 1, Len(blocks)) = blocks ]_vars

\* C28's case: a chain of two blocks has rejected a block that names the
\* hash of the first block, not of the last.
C28_Witness ==
    /\ chain_pc = "rejected"
    /\ Len(blocks) = 2
    /\ offered.previous_block_hash = get_hash(blocks[1])
    /\ offered.previous_block_hash # get_hash(blocks[2])

\* The position of the block whose data was changed, and the assumption on
\* the hash function, for the blocks at hand: the changed block does not
\* hash to what it hashed to before.
Changed == CHOOSE i \in 1..Len(blocks) : blocks[i] # untampered[i]
HashTellsApart == get_hash(blocks[Changed]) # get_hash(untampered[Changed])

\* validate_basic_chain has returned for a chain that was valid before the
\* data of one of its blocks was changed.
ValidatedAfterChange ==
    /\ untampered # <<>>
    /\ chain_pc \in {"valid", "invalid"}
    /\ validate_basic_chain(untampered, untampered[1])
    /\ HashTellsApart

\* C29 as stated: after the data of any one block of a valid chain is
\* changed, no previous_block_hash being recomputed, validate_basic_chain
\* returns False, for a hash function that tells the changed block apart.
C29_AsStated == ValidatedAfterChange => chain_pc = "invalid"

\* C29 amended: after the data of one block of a valid chain is changed,
\* validate_basic_chain returns False if the block is followed by another
\* block, whose previous_block_hash no longer matches, and True if it is the
\* last block of the chain, the genesis block of a one-block chain included:
\* no block holds the hash of the last one, and the genesis block the chain
\* was created from is the chain's first block itself.
C29_TamperDetectedUnlessLast ==
    ValidatedAfterChange =>
        /\ chain_pc = "invalid" <=> Changed < Len(blocks)
        /\ chain_pc = "valid" <=> Changed = Len(blocks)

\* C29's case: the data of the second of three blocks is changed and the
\* validation fails.
C29_Witness ==
    /\ ValidatedAfterChange
    /\ Len(blocks) = 3
    /\ Changed = 2
    /\ chain_pc = "invalid"

(***************************************************************************)
(* The other witness tests                                                 *)
(***************************************************************************)

\* is_div_witness(a, n)
is_div_witness(a, n) == IF a = 1 THEN FALSE ELSE n % a = 0

\* gcd(a, b)
RECURSIVE gcd(_, _)
gcd(a, b) == IF b = 0 THEN a ELSE gcd(b, a % b)

\* is_gcd_witness(a, n)
is_gcd_witness(a, n) == gcd(a, n) > 1

\* is_fermat_witness(a, n)
is_fermat_witness(a, n) == pow(a, n - 1, n) # 1

\* Variant: Euler's test with b = n - 1 taken for a proof as well.
euler_without_minus_one(a, n) ==
    IF n % 2 = 0 THEN FALSE
    ELSE pow(a, (n - 1) \div 2, n) # 1

\* is_euler_witness(a, n)
is_euler_witness(a, n) ==
    IF n % 2 = 0 THEN FALSE
    ELSE pow(a, (n - 1) \div 2, n) # 1 /\ pow(a, (n - 1) \div 2, n) # -1 + n

\* A witness function handed to count_witnesses, applied to the number n:
\* the function of the base a alone.
DivisorTest(n) == [a \in 1..(n - 1) |-> is_div_witness(a, n)]
GCDTest(n) == [a \in 1..(n - 1) |-> is_gcd_witness(a, n)]
FermatTest(n) == [a \in 1..(n - 1) |-> is_fermat_witness(a, n)]
EulerTest(n) == [a \in 1..(n - 1) |-> is_euler_witness(a, n)]
MillerRabinTest(n) == [a \in 1..(n - 1) |-> is_miller_rabin_witness(a, n)]

\* count_witnesses(n, is_witness): "for a in range(1, n)", the count from
\* the base a on.
RECURSIVE CountWitnessesFrom(_, _, _)
CountWitnessesFrom(n, is_witness, a) ==
    IF a >= n THEN 0
    ELSE (IF is_witness[a] THEN 1 ELSE 0) + CountWitnessesFrom(n, is_witness, a + 1)
CountWitnessesOf(n, is_witness) == CountWitnessesFrom(n, is_witness, 1)

\* C30: for an odd composite n and every base a, 0 < a < n, a divisor
\* witness is a GCD witness, a GCD witness a Fermat witness, a Fermat
\* witness an Euler witness, and an Euler witness a Miller-Rabin witness;
\* so the counts of witnesses do not decrease along the ranking.
C30_Ranking ==
    (prime_pc # "idle" /\ prime_n % 2 = 1 /\ IsComposite(prime_n)) =>
        /\ \A a \in 1..(prime_n - 1) :
               /\ is_div_witness(a, prime_n) => is_gcd_witness(a, prime_n)
               /\ is_gcd_witness(a, prime_n) => is_fermat_witness(a, prime_n)
               /\ is_fermat_witness(a, prime_n) => is_euler_witness(a, prime_n)
               /\ is_euler_witness(a, prime_n) => is_miller_rabin_witness(a, prime_n)
        /\ prime_pc = "counted" =>
               /\ CountWitnessesOf(prime_n, DivisorTest(prime_n))
                      <= CountWitnessesOf(prime_n, GCDTest(prime_n))
               /\ CountWitnessesOf(prime_n, GCDTest(prime_n))
                      <= CountWitnessesOf(prime_n, FermatTest(prime_n))
               /\ CountWitnessesOf(prime_n, FermatTest(prime_n))
                      <= CountWitnessesOf(prime_n, EulerTest(prime_n))
               /\ CountWitnessesOf(prime_n, EulerTest(prime_n))
                      <= CountWitnessesOf(prime_n, MillerRabinTest(prime_n))
               /\ CountWitnessesOf(prime_n, MillerRabinTest(prime_n)) = witness_count

\* C30's case: the witnesses of an odd composite are counted, and some
\* Miller-Rabin witness is not an Euler witness, some Fermat witness not a
\* GCD witness, some GCD witness not a divisor witness.
C30_Witness ==
    /\ prime_pc = "counted"
    /\ prime_n % 2 = 1
    /\ IsComposite(prime_n)
    /\ CountWitnessesOf(prime_n, DivisorTest(prime_n)) < CountWitnessesOf(prime_n, GCDTest(prime_n))
    /\ CountWitnessesOf(prime_n, GCDTest(prime_n)) < CountWitnessesOf(prime_n, FermatTest(prime_n))
    /\ CountWitnessesOf(prime_n, EulerTest(prime_n)) < witness_count

====
